---- MODULE Spec2Model ----
(***************************************************************************)
(* Contact-form controller: field validation (utils.js), the API client    *)
(* (utils.js), the FormHandler / ResponseHandler classes (classes.js) and  *)
(* the submit listener (app.js), as a state machine.                       *)
(*                                                                         *)
(* JavaScript runs one task at a time: a step of this model is one         *)
(* uninterrupted run of a handler (a submit event up to its await, the     *)
(* continuation after the await, a timer callback, a user edit).           *)
(*                                                                         *)
(* Form field values are sequences of characters, so that String.trim is   *)
(* computed; names and status messages are strings.                        *)
(***************************************************************************)
EXTENDS Integers, Sequences, FiniteSets, TLC

(***************************************************************************)
(* Bounds of the model.                                                    *)
(***************************************************************************)
\* Longest raw field value fed to the pure validator functions.
MaxValueLen == 2
\* Number of submit events in one behaviour.
MaxAttempts == 2

(***************************************************************************)
(* JavaScript values that are not strings or numbers.                      *)
(***************************************************************************)
UNDEFINED == "<undefined>"
NULL == "<null>"
\* The HTTP status of a response: [isNull |-> TRUE, code |-> 0] models null.
NullStatus == [isNull |-> TRUE, code |-> 0]
Status(code) == [isNull |-> FALSE, code |-> code]

\* JavaScript truthiness of a message value or an error (strings and null/undefined).
Truthy(v) == v \notin {UNDEFINED, NULL, ""}

(***************************************************************************)
(* Strings as character sequences: String.prototype.trim.                  *)
(***************************************************************************)
Chars == {" ", "a"}
IsSpace(c) == c = " "

RECURSIVE TrimStart(_)
TrimStart(s) ==
  IF Len(s) > 0 /\ IsSpace(Head(s)) THEN TrimStart(Tail(s)) ELSE s

RECURSIVE TrimEnd(_)
TrimEnd(s) ==
  IF Len(s) > 0 /\ IsSpace(s[Len(s)])
  THEN TrimEnd(SubSeq(s, 1, Len(s) - 1))
  ELSE s

\* A trim that removes nothing.
TrimNone(s) == s

Trim(s) == TrimEnd(TrimStart(s))

\* Array.prototype.filter / map / includes / join on sequences.
Filter(seq, Keep(_)) == SelectSeq(seq, Keep)

Map(seq, F(_)) == [i \in 1..Len(seq) |-> F(seq[i])]

Includes(seq, x) == \E i \in 1..Len(seq) : seq[i] = x

RECURSIVE Join(_, _)
Join(seq, sep) ==
  IF seq = <<>> THEN ""
  ELSE IF Len(seq) = 1 THEN seq[1]
  ELSE seq[1] \o sep \o Join(Tail(seq), sep)

(***************************************************************************)
(* utils.js: the field transformer and the submission validator.           *)
(* A form-data object is the sequence of its [name, value] entries in      *)
(* insertion order (Object.entries), names distinct.                       *)
(***************************************************************************)
\* A string of the modelled alphabet; anything else has no trim method.
IsString(value) == \A i \in 1..Len(value) : value[i] \in Chars

\* field.value.trim() throws a TypeError when some entry's value is not a string.
trimThrows(formData) == \E i \in 1..Len(formData) : ~IsString(formData[i].value)

transformField(field) ==
  [value |-> Trim(field.value), isEmpty |-> Len(Trim(field.value)) = 0] @@ field

\* validateField counting a blank field as invalid only when it is required.
validateFieldRequiredOnly(field) ==
  [isValid |-> ~(field.isEmpty /\ field.required)] @@ field

validateField(field) ==
  [isValid |-> ~field.isEmpty] @@ field

findEmptyRequiredFields(fields) ==
  LET emptyRequired(field) == field.isEmpty /\ field.required
  IN  Filter(fields, emptyRequired)

transformAndValidateFields(formData, requiredFields) ==
  LET toField(e) == [name |-> e.name, value |-> e.value,
                     required |-> Includes(requiredFields, e.name)]
  IN  Map(Map(Map(formData, toField), transformField), validateField)

validateSubmission(formData, requiredFields) ==
  LET validationResults == transformAndValidateFields(formData, requiredFields)
      invalid(result) == ~result.isValid
      errors == Filter(validationResults, invalid)
      nameOf(err) == err.name
  IN  [shouldProceed |-> Len(errors) = 0,
       errors |-> Map(errors, nameOf),
       validationResults |-> validationResults]

(***************************************************************************)
(* utils.js: the API client.                                               *)
(* What the network does with one request is an outcome record:            *)
(*   kind "fetchError": fetch rejects (no HTTP completion);                *)
(*   kind "parseError": a response with `status` whose body is not JSON;   *)
(*   kind "json":       a response with `status` and parsed body `body`.   *)
(* A parsed body is [isNull, message]: JSON null (or another value without *)
(* properties), or an object whose message is UNDEFINED (absent), NULL or  *)
(* a string.                                                               *)
(***************************************************************************)
NullBody == [isNull |-> TRUE, message |-> UNDEFINED]
Body(message) == [isNull |-> FALSE, message |-> message]

\* JSON.stringify of a form-data object: its key/value pairs in order.
JSONStringify(data) == [i \in 1..Len(data) |-> <<data[i].name, data[i].value>>]

createRequestPayload(data) ==
  [method |-> "POST",
   headers |-> [ContentType |-> "application/json", Accept |-> "application/json"],
   body |-> JSONStringify(data)]

\* How a call of an async function ends; NoResult stands for "no value".
NoResult ==
  [status |-> NullStatus, success |-> FALSE, message |-> UNDEFINED,
   data |-> NullBody, error |-> NULL]
Return(v) == [threw |-> FALSE, value |-> v, error |-> NULL]
Throw(e) == [threw |-> TRUE, value |-> NoResult, error |-> e]

\* data?.message
OptMessage(data) == IF data.isNull THEN UNDEFINED ELSE data.message

\* createResponseObject with ?? in place of ||.
createResponseObjectNullish(status, data, error) ==
  [status |-> status,
   success |-> status = Status(200),
   message |-> IF OptMessage(data) \notin {UNDEFINED, NULL} THEN OptMessage(data)
               ELSE IF Truthy(error) THEN "Something went wrong!" ELSE "Success",
   data |-> data,
   error |-> error]

createResponseObject(status, data, error) ==
  [status |-> status,
   success |-> status = Status(200),
   message |-> IF Truthy(OptMessage(data)) THEN OptMessage(data)
               ELSE IF Truthy(error) THEN "Something went wrong!" ELSE "Success",
   data |-> data,
   error |-> error]

\* The try block of submitFormToAPI: fetch, response.json(), the result.
submitTryBlock(data, outcome) ==
  IF outcome.kind = "fetchError" THEN Throw("TypeError")
      ELSE IF outcome.kind = "parseError" THEN Throw("SyntaxError")
      ELSE Return(createResponseObject(Status(outcome.status), outcome.body, NULL))

\* submitFormToAPI without its catch clause.
submitFormToAPINoCatch(data, outcome) == submitTryBlock(data, outcome)

submitFormToAPI(data, outcome) ==
  LET tried == submitTryBlock(data, outcome)
  IN  IF tried.threw
      THEN Return(createResponseObject(NullStatus, NullBody, tried.error))
      ELSE tried

(***************************************************************************)
(* classes.js: FormHandler over the DOM form.                              *)
(* The form is [values, invalid, wasValidated, focused]: its entries in    *)
(* document order, the names of the controls that match :invalid, the      *)
(* was-validated class and the focused control ("" for none). Which        *)
(* controls satisfy their native constraints is the browser's answer; it   *)
(* is read afresh at each submit event. app.js attaches the listener only  *)
(* when the form exists, so this.form is never null here.                  *)
(***************************************************************************)
FieldNames == <<"email", "message">>
DefaultValue == <<>>
\* The entry of a file control is a File object, not a string.
FileValue == <<"[object File]">>
FieldValues == {<<>>, <<" ">>, <<"a">>}
\* What the control of field i can contribute to the FormData: a control's kind is
\* fixed by the page, and only the last one may be a file control.
FieldValuesOf(i) == IF i = Len(FieldNames) THEN FieldValues \cup {FileValue} ELSE FieldValues

NameSet(seq) == {seq[i] : i \in 1..Len(seq)}

isValid(form) == form.invalid = {}

getInvalidFields(form) ==
  LET invalid(e) == e.name \in form.invalid
      nameOf(e) == e.name
  IN  Map(Filter(form.values, invalid), nameOf)

focusInvalidField(form) ==
  LET invalidFields == getInvalidFields(form)
  IN  IF invalidFields # <<>> THEN [form EXCEPT !.focused = invalidFields[1]] ELSE form

addValidationClass(form) == [form EXCEPT !.wasValidated = TRUE]

\* A reset that clears the validation mark and leaves the values.
resetKeepValues(form) == [form EXCEPT !.wasValidated = FALSE]

reset(form) ==
  [form EXCEPT !.values = [i \in 1..Len(form.values) |->
                             [name |-> form.values[i].name, value |-> DefaultValue]],
               !.wasValidated = FALSE]

\* new FormData(form) reduced to an object: one entry per control, in order.
getFormData(form) == form.values

(***************************************************************************)
(* classes.js: ResponseHandler over the result element.                    *)
(* rh = [resultElement, messageHistory, innerHTML, display, classList];    *)
(* resultElement is TRUE when the element was found; display "" is the     *)
(* inline style before any message. A message's timestamp (a wall-clock    *)
(* reading that nothing reads back) is left out.                           *)
(***************************************************************************)
getClassConfig(status) ==
  IF status = "loading"
  THEN [toRemove |-> {"text-green-500", "text-red-500"}, toAdd |-> {"text-gray-500"}]
  ELSE IF status = "success"
  THEN [toRemove |-> {"text-gray-500", "text-red-500"}, toAdd |-> {"text-green-500"}]
  ELSE [toRemove |-> {"text-gray-500", "text-green-500"}, toAdd |-> {"text-red-500"}]

createMessage(content, status) ==
  [content |-> content, status |-> status]

\* displayMessage keeping only the message it shows.
displayMessageLatestOnly(rh, message, status) ==
  IF ~rh.resultElement THEN rh
  ELSE [rh EXCEPT !.messageHistory = <<createMessage(message, status)>>,
                  !.innerHTML = message,
                  !.display = "block",
                  !.classList = (@ \ getClassConfig(status).toRemove)
                                  \cup getClassConfig(status).toAdd]

displayMessage(rh, message, status) ==
  IF ~rh.resultElement THEN rh
  ELSE [rh EXCEPT !.messageHistory = Append(@, createMessage(message, status)),
                  !.innerHTML = message,
                  !.display = "block",
                  !.classList = (@ \ getClassConfig(status).toRemove)
                                  \cup getClassConfig(status).toAdd]

showLoading(rh) == displayMessage(rh, "Please wait...", "loading")
showSuccess(rh, message) == displayMessage(rh, message, "success")
showError(rh, message) == displayMessage(rh, message, "error")

\* hideAfter cancelling the timers that still wait (cancel-and-reschedule).
hideAfterCancelling(rh, timerList, delay) ==
  Append([k \in 1..Len(timerList) |-> [timerList[k] EXCEPT !.fired = TRUE]],
         [remaining |-> delay, delay |-> delay, fired |-> FALSE,
          shown |-> Len(rh.messageHistory)])

\* setTimeout: one more timer, with `delay` left to wait. Timers are kept after they
\* fire (fired = TRUE), in the order they were set; `shown` is the number of messages
\* in the history when the timer was set.
hideAfter(rh, timerList, delay) ==
  Append(timerList, [remaining |-> delay, delay |-> delay, fired |-> FALSE,
                     shown |-> Len(rh.messageHistory)])

\* A timer callback that leaves the message on display.
hideCallbackKeep(rh) == rh

\* The timer callback of hideAfter.
hideCallback(rh) ==
  IF rh.resultElement THEN [rh EXCEPT !.display = "none"] ELSE rh

(***************************************************************************)
(* utils.js: handleFormSubmit, in its two uninterrupted runs: from the     *)
(* call to the await of submitFormToAPI, and from the await's completion   *)
(* to the return. A frame holds the locals of one call.                    *)
(***************************************************************************)
\* options.resetDelay's default and the listener's delay: 5000 ms, as two units of
\* 2500 ms.
resetDelay == 2

NoValidation == [shouldProceed |-> FALSE, errors |-> <<>>, validationResults |-> <<>>]
NoOutcome == [kind |-> "pending", status |-> 0, body |-> NullBody]

Frame(pc, path, formData, validation, result, ret, threw) ==
  [pc |-> pc, path |-> path, formData |-> formData, validation |-> validation,
   result |-> result, ret |-> ret, threw |-> threw]

\* A call that has returned or thrown holds its locals no longer: its frame keeps only
\* how the call ended.
Ended(frame) == [frame EXCEPT !.pc = "done", !.formData = <<>>, !.validation = NoValidation]

\* fetch(url, payload): one request on the wire for attempt `id`.
Fetch(net, id, payload) ==
  Append(net, [attempt |-> id, request |-> payload, pending |-> TRUE,
               outcome |-> NoOutcome])

\* The await ending and the request issued again unless it ended with a 200.
SettleWithRetry(net, k, outcome) ==
  LET settled == [net EXCEPT ![k].pending = FALSE, ![k].outcome = outcome]
  IN  IF outcome.kind = "json" /\ outcome.status = 200 THEN settled
      ELSE Fetch(settled, net[k].attempt, net[k].request)

\* The await of request k ends with `outcome`.
Settle(net, k, outcome) ==
  [net EXCEPT ![k].pending = FALSE, ![k].outcome = outcome]

\* handleFormSubmit, lines 173-177: the form reports invalid.
rejectInvalid(form, rh, timerList, net) ==
  [form |-> addValidationClass(focusInvalidField(form)),
   rh |-> rh, timers |-> timerList, network |-> net,
   frame |-> Frame("done", "Rejected", <<>>, NoValidation, NoResult, FALSE, FALSE)]

\* handleFormSubmit, lines 179-195: loading, the submission validator, the request.
validateAndSubmit(id, form, rh, timerList, net, opts) ==
  LET loading == showLoading(rh)
      formData == getFormData(form)
      validation == validateSubmission(formData, opts.requiredFields)
  IN  IF trimThrows(formData)
      THEN [form |-> form, rh |-> loading, timers |-> timerList, network |-> net,
            frame |-> Ended(Frame("done", "Threw", formData, NoValidation, NoResult,
                                  FALSE, TRUE))]
      ELSE IF ~validation.shouldProceed
      THEN LET shown == showError(loading, "Missing required fields: "
                                             \o Join(validation.errors, ", "))
           IN  [form |-> form,
                rh |-> shown,
                timers |-> hideAfter(shown, timerList, opts.resetDelay),
                network |-> net,
                frame |-> Ended(Frame("done", "FieldRejected", formData, validation,
                                      NoResult, FALSE, FALSE))]
      ELSE [form |-> form, rh |-> loading, timers |-> timerList,
            network |-> Fetch(net, id, createRequestPayload(formData)),
            frame |-> Frame("fetch", "Submitted", formData, validation,
                            NoResult, FALSE, FALSE)]

\* handleFormSubmit showing the loading message before it asks the form.
handleFormSubmitStartLoadingFirst(id, form, rh, timerList, net, opts) ==
  IF ~isValid(form)
  THEN rejectInvalid(form, showLoading(rh), timerList, net)
  ELSE validateAndSubmit(id, form, rh, timerList, net, opts)

\* handleFormSubmit refusing to start while a request is pending.
handleFormSubmitStartGuarded(id, form, rh, timerList, net, opts) ==
  IF \E k \in 1..Len(net) : net[k].pending
  THEN [form |-> form, rh |-> rh, timers |-> timerList, network |-> net,
        frame |-> Frame("done", "Blocked", <<>>, NoValidation, NoResult, FALSE, FALSE)]
  ELSE IF ~isValid(form)
  THEN rejectInvalid(form, rh, timerList, net)
  ELSE validateAndSubmit(id, form, rh, timerList, net, opts)

handleFormSubmitStart(id, form, rh, timerList, net, opts) ==
  IF ~isValid(form)
  THEN rejectInvalid(form, rh, timerList, net)
  ELSE validateAndSubmit(id, form, rh, timerList, net, opts)

\* handleFormSubmit resetting the form only after a success.
handleFormSubmitResumeKeepOnError(frame, completion, form, rh, timerList, opts) ==
  LET result == completion.value
      shown == IF result.success THEN showSuccess(rh, result.message)
               ELSE showError(rh, result.message)
  IN  [form |-> IF result.success THEN reset(form) ELSE form,
       rh |-> shown,
       timers |-> hideAfter(shown, timerList, opts.resetDelay),
       frame |-> Ended([frame EXCEPT !.path = "Resolved",
                                     !.result = result, !.ret = result.success])]

\* handleFormSubmit scheduling the hide before it shows the final message.
handleFormSubmitResumeHideFirst(frame, completion, form, rh, timerList, opts) ==
  LET result == completion.value
      shown == IF result.success THEN showSuccess(rh, result.message)
               ELSE showError(rh, result.message)
  IN  [form |-> reset(form),
       rh |-> shown,
       timers |-> hideAfter(rh, timerList, opts.resetDelay),
       frame |-> Ended([frame EXCEPT !.path = "Resolved",
                                     !.result = result, !.ret = result.success])]

\* The continuation after `await submitFormToAPI(...)`, the call having ended as
\* `completion`. A throw of the callee is rethrown to the caller of handleFormSubmit.
handleFormSubmitResume(frame, completion, form, rh, timerList, opts) ==
  IF completion.threw
  THEN [form |-> form, rh |-> rh, timers |-> timerList,
        frame |-> Ended([frame EXCEPT !.path = "Threw", !.threw = TRUE])]
  ELSE
    LET result == completion.value
        shown == IF result.success THEN showSuccess(rh, result.message)
                 ELSE showError(rh, result.message)
    IN  [form |-> reset(form),
         rh |-> shown,
         timers |-> hideAfter(shown, timerList, opts.resetDelay),
         frame |-> Ended([frame EXCEPT !.path = "Resolved",
                                       !.result = result, !.ret = result.success])]

\* A listener whose catch clause shows nothing and schedules nothing.
listenerCatchSilent(rh, timerList) == [rh |-> rh, timers |-> timerList]

\* app.js: the catch clause of the submit listener.
listenerCatch(rh, timerList) ==
  LET shown == showError(rh, "An unexpected error occurred")
  IN  [rh |-> shown, timers |-> hideAfter(shown, timerList, resetDelay)]

(***************************************************************************)
(* The state.                                                              *)
(***************************************************************************)
VARIABLES
  form,             \* the DOM form behind formHandler
  isSubmitting,     \* formHandler.isSubmitting
  responseHandler,  \* the ResponseHandler and its result element
  timers,           \* the timers set by hideAfter, in the order they were set
  network,          \* the requests issued by fetch, pending or completed
  attempts,         \* the frames of the calls of handleFormSubmit, in call order
  options,          \* the options handleFormSubmit is called with
  pureIn,           \* the arguments of a call of a pure function
  pureOut           \* what the calls returned, each <<>> before the call

vars == <<form, isSubmitting, responseHandler, timers, network, attempts, options,
          pureIn, pureOut>>

appVars == <<form, isSubmitting, responseHandler, timers, network, attempts, options>>
pureVars == <<pureIn, pureOut>>

\* What the server and the network can do with a request.
Statuses == {200, 500}
Messages == {UNDEFINED, NULL, "", "ok"}
Outcomes ==
  {[kind |-> "fetchError", status |-> 0, body |-> NullBody]}
  \cup {[kind |-> "parseError", status |-> st, body |-> NullBody] : st \in Statuses}
  \cup {[kind |-> "json", status |-> st, body |-> b] :
          st \in Statuses, b \in {NullBody} \cup {Body(m) : m \in Messages}}

\* The outcomes the workflow is run against: a failed fetch, a body that does not
\* parse, a 200 and a non-200 with a message.
AppOutcomes ==
  {[kind |-> "fetchError", status |-> 0, body |-> NullBody],
   [kind |-> "parseError", status |-> 200, body |-> NullBody],
   [kind |-> "json", status |-> 200, body |-> Body("ok")],
   [kind |-> "json", status |-> 500, body |-> Body("")]}

\* The required-field list the workflow is configured with.
RequiredChoices == {<<"email">>}

InitApp ==
  /\ form = [values |-> [i \in 1..Len(FieldNames) |->
                          [name |-> FieldNames[i], value |-> DefaultValue]],
             invalid |-> {}, wasValidated |-> FALSE, focused |-> ""]
  /\ isSubmitting = FALSE
  /\ responseHandler = [resultElement |-> TRUE, messageHistory |-> <<>>,
                        innerHTML |-> "", display |-> "", classList |-> {}]
  /\ timers = <<>>
  /\ network = <<>>
  /\ attempts = <<>>
  /\ \E req \in RequiredChoices :
       options = [requiredFields |-> req, resetDelay |-> resetDelay]

PureIdle == [formData |-> <<>>, requiredFields |-> <<>>,
             outcome |-> [kind |-> "fetchError", status |-> 0, body |-> NullBody]]

Init ==
  /\ InitApp
  /\ pureIn = PureIdle
  /\ pureOut = [validation |-> <<>>, api |-> <<>>]

(***************************************************************************)
(* The steps.                                                              *)
(***************************************************************************)
\* The user edits one control.
Input(i, value) ==
  /\ value \in FieldValuesOf(i)
  /\ form' = [form EXCEPT !.values[i].value = value]
  /\ UNCHANGED <<isSubmitting, responseHandler, timers, network, attempts, options,
                 pureVars>>

\* A submit event, the controls in `invalid` failing their native constraints: the
\* listener calls handleFormSubmit, which runs to its first await, to its return or to
\* a throw, which the listener catches.
Submit(invalid) ==
  /\ Len(attempts) < MaxAttempts
  /\ LET out == handleFormSubmitStart(Len(attempts) + 1,
                                      [form EXCEPT !.invalid = invalid],
                                      responseHandler, timers, network, options)
         caught == listenerCatch(out.rh, out.timers)
     IN  /\ form' = out.form
         /\ responseHandler' = IF out.frame.threw THEN caught.rh ELSE out.rh
         /\ timers' = IF out.frame.threw THEN caught.timers ELSE out.timers
         /\ network' = out.network
         /\ attempts' = Append(attempts, out.frame)
  /\ UNCHANGED <<isSubmitting, options, pureVars>>

\* The request k ends with `outcome`: submitFormToAPI returns (or throws) and the
\* attempt that awaits it runs to its end; a throw reaches the listener's catch.
FetchCompletes(k, outcome) ==
  /\ network[k].pending
  /\ LET id == network[k].attempt
         completion == submitFormToAPI(attempts[id].formData, outcome)
         out == handleFormSubmitResume(attempts[id], completion, form,
                                       responseHandler, timers, options)
         caught == listenerCatch(out.rh, out.timers)
     IN  /\ network' = Settle(network, k, outcome)
         /\ form' = out.form
         /\ attempts' = [attempts EXCEPT ![id] = out.frame]
         /\ responseHandler' = IF out.frame.threw THEN caught.rh ELSE out.rh
         /\ timers' = IF out.frame.threw THEN caught.timers ELSE out.timers
  /\ UNCHANGED <<isSubmitting, options, pureVars>>

Waiting(t) == ~t.fired

\* Timer k fires: its delay has elapsed, and no timer set before it is still waiting
\* (all timers have the same delay, so they come due in the order they were set).
TimerFires(k) ==
  /\ Waiting(timers[k])
  /\ timers[k].remaining = 0
  /\ \A j \in 1..(k - 1) : ~Waiting(timers[j])
  /\ timers' = [timers EXCEPT ![k].fired = TRUE]
  /\ responseHandler' = hideCallback(responseHandler)
  /\ UNCHANGED <<form, isSubmitting, network, attempts, options, pureVars>>

\* One unit of time passes for every waiting timer.
Tick ==
  /\ \E k \in 1..Len(timers) : Waiting(timers[k]) /\ timers[k].remaining > 0
  /\ timers' = [k \in 1..Len(timers) |->
                  IF Waiting(timers[k]) /\ timers[k].remaining > 0
                  THEN [timers[k] EXCEPT !.remaining = @ - 1]
                  ELSE timers[k]]
  /\ UNCHANGED <<form, isSubmitting, responseHandler, network, attempts, options,
                 pureVars>>

Next ==
  \/ \E i \in 1..Len(FieldNames), value \in FieldValues \cup {FileValue} : Input(i, value)
  \/ \E invalid \in SUBSET NameSet(FieldNames) : Submit(invalid)
  \/ \E k \in 1..Len(network), outcome \in AppOutcomes : FetchCompletes(k, outcome)
  \/ \E k \in 1..Len(timers) : TimerFires(k)
  \/ Tick

Spec == Init /\ [][Next]_vars

(***************************************************************************)
(* The application under the assumptions that every request is eventually  *)
(* settled by the network (fetch resolves or rejects), that time passes,   *)
(* and that the event loop runs every timer callback that has come due.    *)
(* Nothing obliges the user to type or to submit.                          *)
(***************************************************************************)
Completion ==
  \E k \in 1..Len(network), outcome \in AppOutcomes : FetchCompletes(k, outcome)

Firing == \E k \in 1..Len(timers) : TimerFires(k)

Fairness == WF_vars(Completion) /\ WF_vars(Firing) /\ WF_vars(Tick)

SpecLive == Init /\ [][Next]_vars /\ Fairness

(***************************************************************************)
(* The pure functions on their own: validateSubmission and submitFormToAPI *)
(* applied to every input within the bounds.                               *)
(***************************************************************************)
Strings(n) == UNION {[1..k -> Chars] : k \in 0..n}

\* Form-data objects with at most two entries, names distinct, in either order.
PureNames == {"email", "message"}
FormDatas ==
  {<<>>}
  \cup {<<[name |-> n, value |-> v]>> : n \in PureNames, v \in Strings(MaxValueLen)}
  \cup {fd \in {<<[name |-> n1, value |-> v1], [name |-> n2, value |-> v2]>> :
                   n1 \in PureNames, n2 \in PureNames,
                   v1 \in Strings(MaxValueLen), v2 \in Strings(MaxValueLen)} :
          fd[1].name # fd[2].name}

\* Required-field lists, also naming a field the form does not have.
RequiredNames == {"email", "message", "phone"}
RequiredLists ==
  {<<>>} \cup {<<n>> : n \in RequiredNames}
  \cup {r \in {<<n1, n2>> : n1 \in RequiredNames, n2 \in RequiredNames} : r[1] # r[2]}

InitPure ==
  /\ InitApp
  /\ pureIn \in [formData : FormDatas, requiredFields : RequiredLists,
                 outcome : Outcomes]
  /\ pureOut = [validation |-> <<>>, api |-> <<>>]

CallValidateSubmission ==
  /\ pureOut.validation = <<>>
  /\ pureOut' = [pureOut EXCEPT !.validation =
                   <<validateSubmission(pureIn.formData, pureIn.requiredFields)>>]
  /\ UNCHANGED <<appVars, pureIn>>

CallSubmitFormToAPI ==
  /\ pureOut.api = <<>>
  /\ pureOut' = [pureOut EXCEPT !.api =
                   <<submitFormToAPI(pureIn.formData, pureIn.outcome)>>]
  /\ UNCHANGED <<appVars, pureIn>>

NextPure == CallValidateSubmission \/ CallSubmitFormToAPI

SpecPure == InitPure /\ [][NextPure]_vars

(***************************************************************************)
(* Properties.                                                             *)
(***************************************************************************)
\* The value the form-data object M holds for name n, as a set (empty when absent).
ValuesOf(M, n) == {M[i].value : i \in {j \in 1..Len(M) : M[j].name = n}}

NonBlank(value) == Len(Trim(value)) > 0

\* C1 (as stated): validateSubmission(M, R).shouldProceed is true iff every name in R
\* is a key of M whose value is non-blank after trimming.
C1_ProceedIffRequiredPresent ==
  pureOut.validation # <<>> =>
    (pureOut.validation[1].shouldProceed <=>
       \A n \in NameSet(pureIn.requiredFields) :
         /\ ValuesOf(pureIn.formData, n) # {}
         /\ \A v \in ValuesOf(pureIn.formData, n) : NonBlank(v))

\* A step in which handleFormSubmit is called, and the frame of that call.
Started == Len(attempts') = Len(attempts) + 1
NewFrame == attempts'[Len(attempts')]

\* The first control, in document order, among those in `invalid`.
FirstOf(values, invalid) ==
  values[CHOOSE i \in 1..Len(values) :
           /\ values[i].name \in invalid
           /\ \A j \in 1..(i - 1) : values[j].name \notin invalid].name

\* Requests are issued only by the step that starts an attempt, and for that attempt.
IssuedAtStartOnly ==
  \A k \in 1..Len(network') :
    (k > Len(network) \/ network'[k].attempt # network[k].attempt) =>
      Started /\ network'[k].attempt = Len(attempts')

\* C2: when handleFormSubmit starts and the form reports invalid, the attempt focuses
\* the first invalid field, marks validation as attempted and returns false; it
\* issues no network call (then or later), appends no status message, schedules no
\* hide timer and does not reset the form.
C2Step ==
  (Started /\ form'.invalid # {}) =>
    /\ form'.focused = FirstOf(form.values, form'.invalid)
    /\ form'.wasValidated
    /\ NewFrame.pc = "done" /\ NewFrame.ret = FALSE /\ ~NewFrame.threw
    /\ network' = network
    /\ responseHandler' = responseHandler
    /\ timers' = timers
    /\ form'.values = form.values

C2_RejectedAttempt == [][C2Step /\ IssuedAtStartOnly]_vars

\* C2 witness: an attempt was rejected with only the second control invalid, which
\* got the focus.
C2_Witness ==
  /\ Len(attempts) > 0
  /\ attempts[Len(attempts)].pc = "done"
  /\ form.invalid = {"message"}
  /\ form.focused = "message"
  /\ form.wasValidated
  /\ network = <<>>

\* The history and the display of the result element.
History == responseHandler.messageHistory
Display == responseHandler.display

\* The submit step passes native validation / the submission validator proceeds on
\* the values the form holds.
NativeOk == form'.invalid = {}
ValidatorThrows == trimThrows(getFormData(form))
ValidatorOk ==
  /\ ~ValidatorThrows
  /\ validateSubmission(getFormData(form), options.requiredFields).shouldProceed
ValidatorRejects ==
  /\ ~ValidatorThrows
  /\ ~validateSubmission(getFormData(form), options.requiredFields).shouldProceed

\* The names, in the form's order, of the required fields whose value is blank.
MissingRequired ==
  LET missing(e) == e.name \in NameSet(options.requiredFields) /\ ~NonBlank(e.value)
      nameOf(e) == e.name
  IN  Map(Filter(getFormData(form), missing), nameOf)

TimerFor(delay, shown) ==
  [remaining |-> delay, delay |-> delay, fired |-> FALSE, shown |-> shown]

\* C3 (as stated): when native validation passes and the validator says not to
\* proceed, the attempt shows (after the loading message) one error message listing
\* exactly the missing required field names, comma-joined in order, schedules one
\* hide with the configured delay, returns false and issues no network call.
C3Step ==
  (Started /\ NativeOk /\ ValidatorRejects) =>
    /\ History' = History \o
         <<[content |-> "Please wait...", status |-> "loading"],
           [content |-> "Missing required fields: " \o Join(MissingRequired, ", "),
            status |-> "error"]>>
    /\ timers' = Append(timers, TimerFor(options.resetDelay, Len(History')))
    /\ NewFrame.pc = "done" /\ NewFrame.ret = FALSE
    /\ network' = network

C3_ListsMissingRequired == [][C3Step]_vars

\* The request handleFormSubmit issues for the values the form holds.
RequestFor(id) ==
  [attempt |-> id,
   request |-> [method |-> "POST",
                headers |-> [ContentType |-> "application/json",
                             Accept |-> "application/json"],
                body |-> [i \in 1..Len(form.values) |->
                            <<form.values[i].name, form.values[i].value>>]],
   pending |-> TRUE, outcome |-> NoOutcome]

CallsOf(id) == {k \in 1..Len(network) : network[k].attempt = id}

\* C4: an attempt issues at most one network call, exactly one when native validation
\* and the submission validator both pass, and none otherwise; a call is never
\* issued again, whatever its result.
C4Step ==
  /\ Started =>
       network' = IF NativeOk /\ ValidatorOk
                  THEN Append(network, RequestFor(Len(attempts')))
                  ELSE network
  /\ ~Started =>
       /\ Len(network') = Len(network)
       /\ \A k \in 1..Len(network) :
            /\ network'[k].attempt = network[k].attempt
            /\ network'[k].request = network[k].request
            /\ network'[k].pending => network[k].pending

C4Inv == \A id \in 1..Len(attempts) : Cardinality(CallsOf(id)) <= 1

C4_OneCallNoRetry == [][C4Step]_vars /\ []C4Inv

Failed(outcome) == ~(outcome.kind = "json" /\ outcome.status = 200)

\* C4 witness: every attempt is over, two of them made their one call, and one of the
\* calls failed without a 200.
C4_Witness ==
  /\ Len(attempts) = MaxAttempts
  /\ \A id \in 1..Len(attempts) : attempts[id].pc = "done"
  /\ Len(network) >= 2
  /\ \A k \in 1..Len(network) : ~network[k].pending
  /\ \E k \in 1..Len(network) : Failed(network[k].outcome)
  /\ \E k \in 1..Len(network) : network[k].outcome.kind = "json"
                                  /\ network[k].outcome.status # 200

\* C5: when the network call of an attempt completes, whatever the result, a success
\* message is appended iff the result succeeded and otherwise an error message, with
\* the result's message; the form is reset; one hide is scheduled with the configured
\* delay, after the message; and the attempt returns the result's succeeded flag,
\* which is true exactly for a 200 whose body parsed.
C5Step ==
  \A k \in 1..Len(network) :
    (network[k].pending /\ ~network'[k].pending) =>
      LET id == network[k].attempt
          result == attempts'[id].result
      IN  /\ result.success <=> ~Failed(network'[k].outcome)
          /\ History' = Append(History,
                               [content |-> result.message,
                                status |-> IF result.success THEN "success"
                                           ELSE "error"])
          /\ responseHandler'.innerHTML = result.message
          /\ Display' = "block"
          /\ \A i \in 1..Len(form'.values) :
               /\ form'.values[i].value = DefaultValue
               /\ form'.values[i].name = form.values[i].name
          /\ ~form'.wasValidated
          /\ timers' = Append(timers, TimerFor(options.resetDelay, Len(History')))
          /\ attempts'[id].pc = "done"
          /\ attempts'[id].ret = result.success
          /\ ~attempts'[id].threw

C5_AfterCompletion == [][C5Step]_vars

\* C5 witness: a call failed (a 200 whose body did not parse), its error message is
\* the latest one and the form, which was filled in, is back to its default values.
C5_Witness ==
  /\ \E k \in 1..Len(network) :
       /\ ~network[k].pending
       /\ network[k].outcome.kind = "parseError"
       /\ \E p \in 1..Len(network[k].request.body) :
            network[k].request.body[p][2] # DefaultValue
       /\ attempts[network[k].attempt].ret = FALSE
       /\ attempts[network[k].attempt].pc = "done"
  /\ Len(History) > 0
  /\ History[Len(History)] = [content |-> "Something went wrong!", status |-> "error"]
  /\ \A i \in 1..Len(form.values) : form.values[i].value = DefaultValue
  /\ Len(timers) > 0 /\ Waiting(timers[Len(timers)])

\* The call of submitFormToAPI made under SpecPure, and how the request ended.
ApiCalled == pureOut.api # <<>>
ApiCompletion == pureOut.api[1]
ApiResult == ApiCompletion.value
RequestFailed == pureIn.outcome.kind \in {"fetchError", "parseError"}

\* C6: submitFormToAPI never throws; succeeded is true iff statusCode is 200; when
\* the request does not complete or the body does not parse (whatever the HTTP
\* status), the result has statusCode null, succeeded false, the message
\* "Something went wrong!" and the caught error.
C6_NeverThrows ==
  ApiCalled =>
    /\ ~ApiCompletion.threw
    /\ ApiResult.success <=> ApiResult.status = Status(200)
    /\ RequestFailed =>
         /\ ApiResult.status = NullStatus
         /\ ~ApiResult.success
         /\ ApiResult.message = "Something went wrong!"
         /\ ApiResult.error = (IF pureIn.outcome.kind = "fetchError" THEN "TypeError"
                               ELSE "SyntaxError")
         /\ ApiResult.data = NullBody

\* C6 witness: a response with status 200 whose body did not parse was turned into a
\* failed result.
C6_Witness ==
  /\ ApiCalled
  /\ pureIn.outcome.kind = "parseError"
  /\ pureIn.outcome.status = 200
  /\ ~ApiResult.success
  /\ ApiResult.message = "Something went wrong!"

\* The message field of the parsed body (UNDEFINED when the body has none).
BodyMessage == IF pureIn.outcome.body.isNull THEN UNDEFINED
               ELSE pureIn.outcome.body.message

ParsedOk == ApiCalled /\ pureIn.outcome.kind = "json"

\* C7 (as stated): for a body that parses, whatever the status, the result's message
\* is the body's message field whenever it is present and not null, the empty string
\* included, and "Success" only when it is absent or null; payload is the parsed
\* body and error is null.
C7_MessageNullish ==
  ParsedOk =>
    /\ BodyMessage \notin {UNDEFINED, NULL} => ApiResult.message = BodyMessage
    /\ BodyMessage \in {UNDEFINED, NULL} => ApiResult.message = "Success"
    /\ ApiResult.message = "Success" => BodyMessage \in {UNDEFINED, NULL, "Success"}
    /\ ApiResult.data = pureIn.outcome.body
    /\ ApiResult.error = NULL

\* C7 (amended): for a body that parses, whatever the status, the result's message
\* is the body's message field whenever it is present, not null and not the empty
\* string, and "Success" when it is absent, null or empty; statusCode is the
\* response's, payload is the parsed body and error is null.
C7_MessageTruthy ==
  ParsedOk =>
    /\ BodyMessage \notin {UNDEFINED, NULL, ""} => ApiResult.message = BodyMessage
    /\ BodyMessage \in {UNDEFINED, NULL, ""} => ApiResult.message = "Success"
    /\ ApiResult.status = Status(pureIn.outcome.status)
    /\ ApiResult.data = pureIn.outcome.body
    /\ ApiResult.error = NULL

\* C7 witness: a non-200 response whose body has an empty message got "Success".
C7_Witness ==
  /\ ParsedOk
  /\ pureIn.outcome.status # 200
  /\ ~pureIn.outcome.body.isNull
  /\ BodyMessage = ""
  /\ ApiResult.message = "Success"
  /\ ~ApiResult.success

\* C8: a hide scheduled by hideAfter is never cancelled by a later display call: a
\* step that appends a message leaves every waiting timer as it was, a timer stops
\* waiting only by firing, which hides the display, and no timer is dropped. So a
\* stale hide can hide a newer message before that message's own delay has elapsed
\* (the witness).
C8Step ==
  /\ Len(timers') >= Len(timers)
  /\ \A k \in 1..Len(timers) :
       /\ (Waiting(timers[k]) /\ Len(History') > Len(History)) => timers'[k] = timers[k]
       /\ (Waiting(timers[k]) /\ ~Waiting(timers'[k])) =>
            /\ timers[k].remaining = 0
            /\ Display' = "none"
            /\ History' = History

C8_HideNeverCancelled == [][C8Step]_vars

\* C8 witness: the display is hidden although the hide set after the latest message
\* still waits with time left, so an older timer hid that message.
C8_Witness ==
  /\ Display = "none"
  /\ Len(History) > 0
  /\ \E k \in 1..Len(timers) :
       /\ timers[k].shown = Len(History)
       /\ Waiting(timers[k])
       /\ timers[k].remaining > 0
  /\ \E j \in 1..Len(timers) : timers[j].fired /\ timers[j].shown < Len(History)

\* C9 (as stated): the display is hidden no earlier than d after hideAfter(d) was
\* invoked, however many messages and hides came before: whenever the display is
\* hidden after a message was shown, the delay of the most recent hideAfter that
\* followed that message has fully elapsed.
C9_HiddenOnlyAfterDelay ==
  (Display = "none" /\ Len(History) > 0 /\ Len(timers) > 0
     /\ timers[Len(timers)].shown = Len(History))
    => timers[Len(timers)].remaining = 0

\* A step in which request k completes.
Completes(k) == network[k].pending /\ ~network'[k].pending
PendingCalls == {k \in 1..Len(network) : network[k].pending}

\* C10: a submission is not blocked or queued by one that is pending: a submit that
\* passes both validations issues its request at once, however many are pending, and
\* isSubmitting stays false; a completion ends its own attempt with its own result
\* and touches no other attempt or request; and its message goes to the end of the
\* history and on display, so the messages follow the order of completion.
C10Step ==
  /\ (Started /\ NativeOk /\ ValidatorOk) =>
       /\ PendingCalls' = PendingCalls \cup {Len(network')}
       /\ Len(network') = Len(network) + 1
       /\ network'[Len(network')].attempt = Len(attempts')
       /\ NewFrame.pc = "fetch"
  /\ \A k \in 1..Len(network) :
       Completes(k) =>
         LET id == network[k].attempt
         IN  /\ PendingCalls' = PendingCalls \ {k}
             /\ \A j \in 1..Len(attempts) : j # id => attempts'[j] = attempts[j]
             /\ attempts'[id].pc = "done"
             /\ attempts'[id].result.success <=> ~Failed(network'[k].outcome)
             /\ Len(History') = Len(History) + 1
             /\ \A m \in 1..Len(History) : History'[m] = History[m]
             /\ History'[Len(History')].content = attempts'[id].result.message
             /\ responseHandler'.innerHTML = attempts'[id].result.message

C10_OverlappingAttempts == [][C10Step]_vars /\ [](isSubmitting = FALSE)

\* C10 witness: two attempts were pending together (two loading messages in a row);
\* the second one's call completed first (its failure message precedes the first
\* one's success message), and the first one's message is the one on display.
C10_Witness ==
  /\ Len(attempts) = 2 /\ Len(network) = 2 /\ Len(History) = 4
  /\ network[1].attempt = 1 /\ network[2].attempt = 2
  /\ attempts[1].pc = "done" /\ attempts[2].pc = "done"
  /\ attempts[1].ret = TRUE /\ attempts[2].ret = FALSE
  /\ History[1].status = "loading" /\ History[2].status = "loading"
  /\ History[3] = [content |-> attempts[2].result.message, status |-> "error"]
  /\ History[4] = [content |-> attempts[1].result.message, status |-> "success"]
  /\ responseHandler.innerHTML = attempts[1].result.message

IsPrefix(s, t) == Len(s) <= Len(t) /\ \A i \in 1..Len(s) : t[i] = s[i]

\* The messages a step appended.
Appended == SubSeq(History', Len(History) + 1, Len(History'))

ClassOf(status) ==
  IF status = "loading" THEN "text-gray-500"
  ELSE IF status = "success" THEN "text-green-500" ELSE "text-red-500"

\* C11: the message history is append-only: over any step (a submit, a completion, a
\* timer firing, an edit, a form reset) the history before is a prefix of the history
\* after; a step that shows messages appends one entry per display call, of the kind
\* of the call (a submit starts with the loading message "Please wait...", a
\* completion appends one success or error entry), and the element then shows the
\* entry appended last; a step that shows nothing leaves the history as it is.
C11Step ==
  /\ IsPrefix(History, History')
  /\ Len(Appended) > 0 =>
       /\ responseHandler'.innerHTML = Appended[Len(Appended)].content
       /\ Display' = "block"
       /\ responseHandler'.classList = {ClassOf(Appended[Len(Appended)].status)}
  /\ (Started /\ NativeOk) =>
       /\ Len(Appended) \in {1, 2}
       /\ Appended[1] = [content |-> "Please wait...", status |-> "loading"]
       /\ Len(Appended) = 2 => Appended[2].status = "error"
  /\ (Started /\ ~NativeOk) => Appended = <<>>
  /\ (\E k \in 1..Len(network) : Completes(k)) =>
       /\ Len(Appended) = 1
       /\ Appended[1].status \in {"success", "error"}
  /\ (~Started /\ ~\E k \in 1..Len(network) : Completes(k)) => Appended = <<>>

C11_HistoryAppendOnly == [][C11Step]_vars

\* C11 witness: four messages of all three kinds are in the history, from two
\* attempts, after a hide timer fired and the form was reset.
C11_Witness ==
  /\ Len(History) = 4
  /\ {History[i].status : i \in 1..4} = {"loading", "success", "error"}
  /\ \E k \in 1..Len(timers) : timers[k].fired
  /\ Display = "none"
  /\ \A id \in 1..Len(attempts) : attempts[id].pc = "done"

\* The message the listener's catch clause shows.
GenericError == [content |-> "An unexpected error occurred", status |-> "error"]

\* C12: when handleFormSubmit throws (here: a non-string value reaching trim, after
\* the loading message), the listener catches the fault in the same step: the attempt
\* is over, the generic error message is appended and on display, one hide with the
\* listener's delay is scheduled after it, no request is issued, the form keeps its
\* values and isSubmitting stays false, so nothing stands in the way of a further
\* submission. The generic message is shown by no other step.
C12Step ==
  /\ (Started /\ NativeOk /\ ValidatorThrows) =>
       /\ NewFrame.pc = "done" /\ NewFrame.threw /\ NewFrame.path = "Threw"
       /\ History' = History \o
            <<[content |-> "Please wait...", status |-> "loading"], GenericError>>
       /\ responseHandler'.innerHTML = GenericError.content
       /\ Display' = "block"
       /\ timers' = Append(timers, TimerFor(resetDelay, Len(History')))
       /\ network' = network
       /\ form'.values = form.values
       /\ isSubmitting' = FALSE
  /\ (\E i \in 1..Len(Appended) : Appended[i] = GenericError) =>
       Started /\ NativeOk /\ ValidatorThrows
  /\ \A id \in 1..Len(attempts') : attempts'[id].threw => attempts'[id].pc = "done"

C12_FaultCaughtByListener == [][C12Step]_vars

\* A faulted attempt, its generic message hidden by its timer, and then a second
\* attempt of the same form that was submitted and succeeded.
C12_Witness ==
  /\ Len(attempts) = 2
  /\ attempts[1].threw /\ attempts[1].pc = "done"
  /\ History[2] = GenericError
  /\ timers[1].fired
  /\ attempts[2].path = "Resolved" /\ attempts[2].ret = TRUE

\* The Fields validateSubmission got from transformAndValidateFields.
Fields == pureOut.validation[1].validationResults

\* t is v without its leading and trailing white space.
IsTrimOf(t, v) ==
  \E a \in 0..Len(v), b \in 0..Len(v) :
    /\ a + b <= Len(v)
    /\ t = SubSeq(v, a + 1, Len(v) - b)
    /\ \A i \in 1..a : IsSpace(v[i])
    /\ \A i \in (Len(v) - b + 1)..Len(v) : IsSpace(v[i])
    /\ t # <<>> => ~IsSpace(t[1]) /\ ~IsSpace(t[Len(t)])

\* The mapping built from the names and values of the Fields.
MappingOf(fields) ==
  [i \in 1..Len(fields) |-> [name |-> fields[i].name, value |-> fields[i].value]]

\* C13: transformAndValidateFields returns one Field per entry of the mapping, in the
\* mapping's order, each with the entry's name, the entry's value trimmed, and
\* required = membership of the name in the required list; transforming the mapping
\* built from the output gives the same Fields again; and the empty mapping gives
\* the empty sequence.
C13_OneFieldPerEntry ==
  pureOut.validation # <<>> =>
    /\ Len(Fields) = Len(pureIn.formData)
    /\ \A i \in 1..Len(Fields) :
         /\ Fields[i].name = pureIn.formData[i].name
         /\ IsTrimOf(Fields[i].value, pureIn.formData[i].value)
         /\ Fields[i].required <=>
              \E j \in 1..Len(pureIn.requiredFields) :
                 pureIn.requiredFields[j] = Fields[i].name
    /\ transformAndValidateFields(MappingOf(Fields), pureIn.requiredFields) = Fields
    /\ pureIn.formData = <<>> => Fields = <<>>

\* Two entries, "message" before "email", the first value changed by the trim, one
\* Field required and the other not, and a required name the mapping does not have.
C13_Witness ==
  /\ pureOut.validation # <<>>
  /\ Len(Fields) = 2
  /\ Fields[1].name = "message" /\ Fields[2].name = "email"
  /\ pureIn.formData[1].value = <<" ", "a">> /\ Fields[1].value = <<"a">>
  /\ Fields[1].required /\ ~Fields[2].required
  /\ pureIn.requiredFields = <<"phone", "message">>

ValidationOut == pureOut.validation[1]

\* The value is empty or white space only.
Blank(value) == \A i \in 1..Len(value) : IsSpace(value[i])

\* The names of the entries of the mapping M whose value is blank, in M's order.
RECURSIVE BlankNames(_)
BlankNames(M) ==
  IF M = <<>> THEN <<>>
  ELSE IF Blank(Head(M).value) THEN <<Head(M).name>> \o BlankNames(Tail(M))
  ELSE BlankNames(Tail(M))

\* C14: for every mapping and required list, a Field is invalid exactly when it is
\* empty, that is when the entry's value is blank, whatever its required flag;
\* errors is the sequence of the names of the invalid Fields in the transformer's
\* order; and shouldProceed is true iff errors is empty.
C14_ErrorsAreInvalidNames ==
  pureOut.validation # <<>> =>
    /\ \A i \in 1..Len(Fields) :
         /\ Fields[i].isValid <=> ~Fields[i].isEmpty
         /\ Fields[i].isEmpty <=> Blank(pureIn.formData[i].value)
    /\ ValidationOut.errors = BlankNames(pureIn.formData)
    /\ \A n \in PureNames :
         Includes(ValidationOut.errors, n) <=>
           \E i \in 1..Len(Fields) : Fields[i].name = n /\ ~Fields[i].isValid
    /\ ValidationOut.shouldProceed <=> ValidationOut.errors = <<>>

\* Nothing is required, both values are blank (one of them white space), and both
\* names are in errors in the mapping's order: submission is blocked.
C14_Witness ==
  /\ pureOut.validation # <<>>
  /\ pureIn.requiredFields = <<>>
  /\ pureIn.formData = <<[name |-> "message", value |-> <<" ">>],
                         [name |-> "email", value |-> <<>>]>>
  /\ ValidationOut.errors = <<"message", "email">>
  /\ ~ValidationOut.shouldProceed

LoadingMessage == [content |-> "Please wait...", status |-> "loading"]

\* The positions of the final (non-loading) messages of a history.
FinalIdx(h) == {i \in 1..Len(h) : h[i].status # "loading"}

\* The attempts that passed native validation and those of them that are over.
PassedNative == {id \in 1..Len(attempts) : attempts[id].path # "Rejected"}
PassedAndOver == {id \in PassedNative : attempts[id].pc = "done"}

\* One hide was scheduled in this step, after the message now last in the history.
OneHideAfterLast ==
  /\ Len(timers') = Len(timers) + 1
  /\ SubSeq(timers', 1, Len(timers)) = timers
  /\ timers'[Len(timers')].shown = Len(History')
  /\ ~timers'[Len(timers')].fired

\* C15: an attempt that passes native validation appends the loading message first,
\* in the step that runs the validator and issues the attempt's request (requests
\* are issued in no other step); until its request completes it appends nothing
\* more and schedules nothing; it ends with exactly one further message, an error
\* or a success, and exactly one hide scheduled after that message. So at all times
\* there are as many loading messages as attempts that passed native validation and
\* as many hides as final messages, one per such attempt that is over, each hide
\* scheduled at a final message.
C15Step ==
  /\ (Started /\ NativeOk) =>
       /\ Len(Appended) >= 1 /\ Appended[1] = LoadingMessage
       /\ NewFrame.pc = "fetch" =>
            /\ Appended = <<LoadingMessage>>
            /\ timers' = timers
            /\ Len(network') = Len(network) + 1
            /\ network'[Len(network')].attempt = Len(attempts')
       /\ NewFrame.pc = "done" =>
            /\ Len(Appended) = 2 /\ Appended[2].status = "error"
            /\ OneHideAfterLast
            /\ network' = network
  /\ Len(network') > Len(network) => Started /\ NativeOk
  /\ \A k \in 1..Len(network) :
       Completes(k) =>
         /\ Len(Appended) = 1 /\ Appended[1].status \in {"success", "error"}
         /\ OneHideAfterLast
  /\ (~(Started /\ NativeOk) /\ ~\E k \in 1..Len(network) : Completes(k)) =>
       /\ Appended = <<>>
       /\ Len(timers') = Len(timers)
  /\ Cardinality({i \in 1..Len(History) : History[i] = LoadingMessage})
       = Cardinality(PassedNative)
  /\ Len(timers) = Cardinality(FinalIdx(History))
  /\ Len(timers) = Cardinality(PassedAndOver)
  /\ {timers[k].shown : k \in 1..Len(timers)} = FinalIdx(History)

C15_LoadingThenOneFinalMessage == [][C15Step]_vars

\* Two overlapping attempts that passed native validation and are over, one rejected
\* by the validator and one answered: two loading messages, two final messages, two
\* hides.
C15_Witness ==
  /\ Len(attempts) = 2
  /\ attempts[1].path = "Resolved" /\ attempts[2].path = "FieldRejected"
  /\ Len(timers) = 2 /\ Len(History) = 4
  /\ timers[1].shown = 3 /\ timers[2].shown = 4
  /\ History[3].content = "Missing required fields: email"

\* The values of all controls are the default ones.
AllDefault(values) == \A i \in 1..Len(values) : values[i].value = DefaultValue

\* C16: the workflow resets the form exactly in the step in which an attempt's
\* request completes, whatever the result: the values go back to the defaults and
\* the validation mark is cleared. The step that starts an attempt leaves the values
\* as they are, whether the attempt ends there (Rejected, FieldRejected, a fault) or
\* goes on to wait for its request; timers leave the form alone; and any other
\* change of the values is the user's input, which touches nothing else.
C16Step ==
  /\ (\E k \in 1..Len(network) : Completes(k)) =>
       /\ AllDefault(form'.values)
       /\ \A i \in 1..Len(form.values) : form'.values[i].name = form.values[i].name
       /\ ~form'.wasValidated
  /\ Started =>
       /\ form'.values = form.values
       /\ NativeOk => form'.wasValidated = form.wasValidated
       /\ ~NativeOk => form'.wasValidated /\ NewFrame.path = "Rejected"
  /\ (form'.values # form.values /\ ~\E k \in 1..Len(network) : Completes(k)) =>
       /\ UNCHANGED <<attempts, network, responseHandler, timers>>
       /\ form'.wasValidated = form.wasValidated
  /\ (timers' # timers /\ ~Started /\ ~\E k \in 1..Len(network) : Completes(k)) =>
       form' = form

C16_ResetIffCompleted == [][C16Step]_vars

\* A first attempt rejected by the validator, which left a filled-in value in the
\* form, then the form completed, submitted and answered with a failure: the values
\* are back at the defaults.
C16_Witness ==
  /\ Len(attempts) = 2
  /\ attempts[1].path = "FieldRejected"
  /\ attempts[2].path = "Resolved" /\ attempts[2].ret = FALSE
  /\ AllDefault(form.values)
  /\ ~form.wasValidated

\* Every attempt is over and every timer has fired.
AllOver == \A id \in 1..Len(attempts) : attempts[id].pc = "done"
AllFired == \A k \in 1..Len(timers) : timers[k].fired
Quiet == AllOver /\ AllFired

\* No message is on display: the element was hidden by a timer, or nothing was ever
\* shown in it.
Hidden ==
  \/ Display = "none"
  \/ History = <<>> /\ responseHandler.innerHTML = "" /\ Display # "block"

LoadingShown ==
  /\ Display = "block"
  /\ responseHandler.innerHTML = LoadingMessage.content

\* C17: when every request is eventually settled and every due timer eventually
\* fires, every attempt that was started is eventually over; the application comes
\* to rest again and again (all attempts over, all timers fired), and at rest no
\* message is on display; a message on display is eventually hidden, and the loading
\* message does not stay on display.
C17_EventuallyHidden ==
  /\ \A id \in 1..MaxAttempts :
       (Len(attempts) >= id) ~> (Len(attempts) >= id /\ attempts[id].pc = "done")
  /\ []<>Quiet
  /\ [](Quiet => Hidden)
  /\ (Display = "block") ~> (Display = "none")
  /\ LoadingShown ~> ~LoadingShown

\* At rest after two overlapping attempts whose requests were both answered: four
\* messages were shown, both timers have fired, and the element is hidden.
C17_Witness ==
  /\ Quiet
  /\ Len(attempts) = 2 /\ Len(network) = 2 /\ Len(timers) = 2
  /\ History[1] = LoadingMessage /\ History[2] = LoadingMessage
  /\ Display = "none"

====
